---- MODULE Spec2Model ----
(***************************************************************************)
(* NanoComp (src/nanocomp/NanoComp.py): main() parses the command line,    *)
(* optionally reads a run-id mapping file, ingests the read table, exports *)
(* it, relabels rows by run id and issues the comparative plots.           *)
(*                                                                         *)
(* Text is modelled at the level of atoms: a line is a sequence of atoms,  *)
(* an atom being the tab character "TAB", the space character "SP", or a   *)
(* whitespace-free word.  readlines() yields the lines of the file; the    *)
(* line terminator, which strip() always removes, is left out of a line.   *)
(***************************************************************************)
EXTENDS Integers, Sequences, FiniteSets, TLC

VARIABLES
    world,       \* the inputs of the run: command line, mapping file and reads
    pc,          \* position of the single thread of main()
    args,        \* the argparse namespace returned by get_args()
    handle,      \* the FileType('r') handle of --split_runs
    outdir,      \* TRUE once utils.make_output_dir has run
    logs,        \* "none", or the sequence of records written through logging
    stderr,      \* messages sys.exit(<str>) printed
    split_dict,  \* the dict returned by validate_split_runs_file
    datadf,      \* the DataFrame returned by nanoget.get_input
    exported,    \* the content written to NanoComp-data.tsv.gz
    plots,       \* the requests made to nanoplotter, in call order
    exc,         \* the exception propagating to the handler of main()
    status       \* exit status of the process, -1 while it runs

vars == <<world, pc, args, handle, outdir, logs, stderr, split_dict, datadf,
          exported, plots, exc, status>>

----------------------------------------------------------------------------
(* Bounds of the model *)

MaxDataLines == 2
MaxRows == 2
MaxFiles == 1

----------------------------------------------------------------------------
(* Text: str.strip, str.upper, str.split('\t') *)

Whitespace == {"TAB", "SP"}

RECURSIVE lstrip(_)
lstrip(s) ==
    IF s = <<>> THEN s
    ELSE IF Head(s) \in Whitespace THEN lstrip(Tail(s)) ELSE s

RECURSIVE rstrip(_)
rstrip(s) ==
    IF s = <<>> THEN s
    ELSE IF s[Len(s)] \in Whitespace THEN rstrip(SubSeq(s, 1, Len(s) - 1)) ELSE s

strip(s) == rstrip(lstrip(s))

upperAtom(a) ==
    CASE a = "name" -> "NAME"
      [] a = "run_id" -> "RUN_ID"
      [] OTHER -> a

upper(s) == [i \in DOMAIN s |-> upperAtom(s[i])]

\* s.split('\t'): the fields between tabs; the empty string has one empty field
RECURSIVE split(_)
split(s) ==
    IF s = <<>> THEN << <<>> >>
    ELSE LET r == split(Tail(s))
         IN  IF Head(s) = "TAB" THEN << <<>> >> \o r
             ELSE << <<Head(s)>> \o Head(r) >> \o Tail(r)

----------------------------------------------------------------------------
(* Python dict: items in insertion order, keys unique; assigning to a key   *)
(* that is present replaces its value and keeps its position.               *)

has_key(d, k) == \E i \in DOMAIN d : d[i][1] = k

\* a dict that keeps the first value assigned to a key
setitem_keep_first(d, k, v) ==
    IF has_key(d, k) THEN d ELSE Append(d, <<k, v>>)

setitem(d, k, v) ==
    IF has_key(d, k)
    THEN [i \in DOMAIN d |-> IF d[i][1] = k THEN <<k, v>> ELSE d[i]]
    ELSE Append(d, <<k, v>>)

getitem(d, k) == d[CHOOSE i \in DOMAIN d : d[i][1] = k][2]

----------------------------------------------------------------------------
(* validate_split_runs_file *)

HeaderError == "ERROR: Mandatory header of --split_runs tsv file not found: 'NAME', 'RUN_ID'"
FormatError == "ERROR: Format of --split_runs tab separated file not as expected"

\* a header test that looks at the first two fields only
header_ok_prefix(line) ==
    LET f == split(upper(line))
    IN  Len(f) >= 2 /\ f[1] = <<"NAME">> /\ f[2] = <<"RUN_ID">>

\* content[0].upper().split('\t') == ['NAME', 'RUN_ID']
header_ok(line) == split(upper(line)) = << <<"NAME">>, <<"RUN_ID">> >>

\* a comprehension that passes over a line with no second field
RECURSIVE dict_comprehension_skip(_, _)
dict_comprehension_skip(lines, d) ==
    IF lines = <<>> THEN [raised |-> "none", value |-> d]
    ELSE LET c == Head(lines)
             f == split(c)
         IN  IF c = <<>> \/ Len(f) < 2 THEN dict_comprehension_skip(Tail(lines), d)
             ELSE dict_comprehension_skip(Tail(lines), setitem(d, f[2], f[1]))

\* {c.split('\t')[1]: c.split('\t')[0] for c in content[1:] if c}, the lines
\* taken in file order; a line with no second field raises IndexError
RECURSIVE dict_comprehension(_, _)
dict_comprehension(lines, d) ==
    IF lines = <<>> THEN [raised |-> "none", value |-> d]
    ELSE LET c == Head(lines)
             f == split(c)
         IN  IF c = <<>> THEN dict_comprehension(Tail(lines), d)
             ELSE IF Len(f) < 2 THEN [raised |-> "IndexError", value |-> <<>>]
             ELSE dict_comprehension(Tail(lines), setitem(d, f[2], f[1]))

\* The outcome of the call: the dict it returns, or the message of the
\* sys.exit it makes (SystemExit).
validate_split_runs_file(lines) ==
    LET content == [i \in DOMAIN lines |-> strip(lines[i])]
    IN  IF content = <<>>
        THEN [exit |-> TRUE, msg |-> FormatError, value |-> <<>>]
        ELSE IF header_ok(content[1])
        THEN LET r == dict_comprehension(Tail(content), <<>>)
             IN  IF r.raised = "IndexError"
                 THEN [exit |-> TRUE, msg |-> FormatError, value |-> <<>>]
                 ELSE [exit |-> FALSE, msg |-> "", value |-> r.value]
        ELSE [exit |-> TRUE, msg |-> HeaderError, value |-> <<>>]

----------------------------------------------------------------------------
(* change_identifiers *)

\* a mask taken on the dataset column instead of the runIDs column
loc_assign_by_dataset(rows, rid, name) ==
    [i \in DOMAIN rows |->
        IF rows[i].dataset = rid THEN [rows[i] EXCEPT !.dataset = name] ELSE rows[i]]

\* datadf.loc[datadf["runIDs"] == rid, "dataset"] = name
loc_assign(rows, rid, name) ==
    [i \in DOMAIN rows |->
        IF rows[i].runIDs = rid THEN [rows[i] EXCEPT !.dataset = name] ELSE rows[i]]

\* for rid, name in split_dict.items(): ...
RECURSIVE change_identifiers(_, _)
change_identifiers(rows, items) ==
    IF items = <<>> THEN rows
    ELSE change_identifiers(loc_assign(rows, Head(items)[1], Head(items)[2]),
                            Tail(items))

----------------------------------------------------------------------------
(* make_plots: the derived column and the identity filter *)

\* np.log10 on the lengths of the model, which are powers of ten
RECURSIVE log10(_)
log10(n) == IF n <= 1 THEN 0 ELSE 1 + log10(n \div 10)

\* df["log length"] = np.log10(df["lengths"])
add_log_length(df) ==
    [columns |-> df.columns \cup {"log length"},
     rows |-> [i \in DOMAIN df.rows |->
                 ("log length" :> log10(df.rows[i].lengths)) @@ df.rows[i]]]

\* the values of a column in ascending order
RECURSIVE sorted(_)
sorted(s) ==
    IF s = <<>> THEN <<>>
    ELSE LET m == CHOOSE i \in DOMAIN s : \A j \in DOMAIN s : s[i] <= s[j]
         IN  <<s[m]>> \o sorted([k \in 1..(Len(s) - 1) |-> IF k < m THEN s[k] ELSE s[k + 1]])

Percent == 1

\* np.percentile(a, q), linear interpolation: with v the sorted values and
\* virtual index q/100 * (n-1) = lo + frac, the value v[lo] + frac * (v[lo+1] - v[lo]).
\* Returned times 100, so that it is an integer.
percentile100(a, q) ==
    LET v == sorted(a)
        n == Len(v)
        pos == q * (n - 1)              \* virtual index times 100, 0-based
        lo == pos \div 100
        fr == pos % 100
        hi == IF lo + 1 < n THEN lo + 1 ELSE lo
    IN  100 * v[lo + 1] + fr * (v[hi + 1] - v[lo + 1])

\* a filter that keeps the rows at the percentile as well
identity_subset_ge(df) ==
    LET col == [i \in DOMAIN df.rows |-> df.rows[i].percentIdentity]
        p == percentile100(col, Percent)
    IN  [columns |-> df.columns,
         rows |-> SelectSeq(df.rows, LAMBDA r : 100 * r.percentIdentity >= p)]

\* df[df["percentIdentity"] > np.percentile(df["percentIdentity"], 1)]
identity_subset(df) ==
    LET col == [i \in DOMAIN df.rows |-> df.rows[i].percentIdentity]
        p == percentile100(col, Percent)
    IN  [columns |-> df.columns,
         rows |-> SelectSeq(df.rows, LAMBDA r : 100 * r.percentIdentity > p)]

----------------------------------------------------------------------------
(* The inputs of a run *)

SeqsUpTo(S, n) == UNION {[1..k -> S] : k \in 0..n}

HeaderLines ==
    { <<"NAME", "TAB", "RUN_ID">>,
      <<"name", "TAB", "run_id">>,
      <<"NAME", "TAB", "RUN_ID", "TAB">>,
      <<"NAME", "TAB", "RUN_ID", "TAB", "ID">>,
      <<"ID", "TAB", "NAME">>,
      <<"NAME">>,
      <<>> }

DataLines ==
    { <<"SampleX", "TAB", "R1">>,
      <<"SampleY", "TAB", "R1">>,
      <<"SampleX", "TAB", "R2">>,
      <<"SampleX">>,
      <<"SP">>,
      <<>> }

\* a mapping file: no line at all, or a first line and up to MaxDataLines more
Files ==
    {<<>>} \cup {<<h>> \o d : h \in HeaderLines, d \in SeqsUpTo(DataLines, MaxDataLines)}

BaseFiles == { <<<<"NAME", "TAB", "RUN_ID">>, <<"SampleX", "TAB", "R1">>>> }

RunIDs == {<<"R1">>, <<"R2">>}
Labels == {<<"A">>}
Lengths == {100}
Quals == {10}
Identities == {90, 95}

Reads ==
    [runIDs : RunIDs, dataset : Labels, lengths : Lengths, quals : Quals,
     percentIdentity : Identities]

\* the reads of the input files: at least one, at most MaxRows; they vary in
\* run id and identity, the base reads below also in label and length
ReadTables == SeqsUpTo(Reads, MaxRows) \ {<<>>}

BaseReads ==
    { << [runIDs |-> <<"R1">>, dataset |-> <<"A">>, lengths |-> 100, quals |-> 10,
          percentIdentity |-> 90],
         [runIDs |-> <<"R2">>, dataset |-> <<"B">>, lengths |-> 100, quals |-> 10,
          percentIdentity |-> 95],
         [runIDs |-> <<"R3">>, dataset |-> <<"A">>, lengths |-> 10, quals |-> 10,
          percentIdentity |-> 95] >> }

Sources == {"fastq", "bam", "summary"}

\* the namespace of parse_args(): a file or name list is given by its length,
\* 0 for None; split_runs tells whether --split_runs was given
Namespaces ==
    { a \in [fastq : 0..MaxFiles, bam : 0..MaxFiles, summary : 0..MaxFiles,
             names : 0..(MaxFiles + 1), raw : BOOLEAN, plot : {"violin", "box"},
             split_runs : BOOLEAN] :
        Cardinality({s \in Sources : a[s] > 0}) = 1 }

\* a run is given by its command line, the mapping file the command line
\* names (no line when it names none) and the reads of its input files: every
\* mapping file with the base reads, every read table with the base file, and
\* every read table with no mapping file
Worlds ==
    [argv : {a \in Namespaces : a.split_runs}, mapfile : Files, reads : BaseReads]
    \cup
    [argv : {a \in Namespaces : a.split_runs}, mapfile : BaseFiles, reads : ReadTables]
    \cup
    [argv : {a \in Namespaces : ~a.split_runs}, mapfile : {<<>>},
     reads : ReadTables \cup BaseReads]

----------------------------------------------------------------------------
(* get_args *)

NamesError == "ERROR: Number of names (-n) should be same as number of files specified!"

\* [len(i) for i in [args.fastq, args.summary, args.bam] if i][0]
first_given(a) ==
    IF a.fastq > 0 THEN a.fastq ELSE IF a.summary > 0 THEN a.summary ELSE a.bam

\* a check that catches too few names only
names_mismatch_fewer(a) == a.names > 0 /\ a.names < first_given(a)

\* if args.names: if not len(args.names) == ...
names_mismatch(a) == a.names > 0 /\ ~(a.names = first_given(a))

\* [n for n, s in zip(sourcename, sources) if s][0]
source(a) == IF a.fastq > 0 THEN "fastq" ELSE IF a.bam > 0 THEN "bam" ELSE "summary"

NoHandle == [open |-> FALSE, unread |-> <<>>]
NoFrame == [bound |-> FALSE, columns |-> {}, rows |-> <<>>]
NoDict == [bound |-> FALSE, items |-> <<>>]
NoArgs ==
    [fastq |-> 0, bam |-> 0, summary |-> 0, names |-> 0, raw |-> FALSE,
     plot |-> "violin", split_runs |-> FALSE]

Init ==
    /\ world \in Worlds
    /\ pc = "get_args"
    /\ args = NoArgs
    /\ handle = NoHandle
    /\ outdir = FALSE
    /\ logs = [ready |-> FALSE, records |-> <<>>]
    /\ stderr = <<>>
    /\ split_dict = NoDict
    /\ datadf = NoFrame
    /\ exported = NoFrame
    /\ plots = <<>>
    /\ exc = "none"
    /\ status = -1

\* parse_args() opens the --split_runs file (type=FileType('r')); the names
\* check follows, and sys.exit(<str>) prints the message and exits with 1
GetArgs ==
    /\ pc = "get_args"
    /\ LET a == world.argv
       IN
        /\ args' = a
        /\ handle' = IF a.split_runs THEN [open |-> TRUE, unread |-> world.mapfile]
                     ELSE NoHandle
        /\ IF names_mismatch(a)
           THEN /\ stderr' = Append(stderr, NamesError)
                /\ status' = 1
                /\ pc' = "exited"
           ELSE /\ pc' = "make_output_dir"
                /\ UNCHANGED <<stderr, status>>
    /\ UNCHANGED <<world, outdir, logs, split_dict, datadf, exported, plots, exc>>

----------------------------------------------------------------------------
(* main *)

\* utils.make_output_dir(args.outdir)
MakeOutputDir ==
    /\ pc = "make_output_dir"
    /\ outdir' = TRUE
    /\ pc' = "init_logs"
    /\ UNCHANGED <<world, args, handle, logs, stderr, split_dict, datadf, exported,
                   plots, exc, status>>

\* utils.init_logs(args, tool="NanoComp"), then the test of args.split_runs
InitLogs ==
    /\ pc = "init_logs"
    /\ logs' = [logs EXCEPT !.ready = TRUE]
    /\ pc' = IF args.split_runs THEN "validate_split_runs_file" ELSE "get_input"
    /\ UNCHANGED <<world, args, handle, outdir, stderr, split_dict, datadf, exported,
                   plots, exc, status>>

\* split_dict = validate_split_runs_file(args.split_runs): readlines() reads the
\* handle to its end; SystemExit is no Exception, so the handler of main() does
\* not catch it and the process exits with status 1 after printing the message
ValidateSplitRuns ==
    /\ pc = "validate_split_runs_file"
    /\ LET r == validate_split_runs_file(handle.unread)
       IN  /\ handle' = [handle EXCEPT !.unread = <<>>]
           /\ IF r.exit
              THEN /\ stderr' = Append(stderr, r.msg)
                   /\ status' = 1
                   /\ pc' = "exited"
                   /\ UNCHANGED split_dict
              ELSE /\ split_dict' = [bound |-> TRUE, items |-> r.value]
                   /\ pc' = "get_input"
                   /\ UNCHANGED <<stderr, status>>
    /\ UNCHANGED <<world, args, outdir, logs, datadf, exported, plots, exc>>

\* the columns nanoget returns for a source
columns_of(src) ==
    {"lengths", "quals", "runIDs", "dataset"}
        \cup (IF src = "bam" THEN {"percentIdentity"} ELSE {})

frame_of(src, reads) ==
    [bound |-> TRUE,
     columns |-> columns_of(src),
     rows |-> [i \in DOMAIN reads |-> [c \in columns_of(src) |-> reads[i][c]]]]

after_get_input(a) ==
    IF a.raw THEN "to_csv"
    ELSE IF a.split_runs THEN "change_identifiers" ELSE "make_plots"

\* datadf = nanoget.get_input(...): the table of the reads, or an exception
GetInput ==
    /\ pc = "get_input"
    /\ \/ /\ datadf' = frame_of(source(args), world.reads)
          /\ pc' = after_get_input(args)
          /\ exc' = exc
       \/ /\ exc' = "IngestionError"
          /\ pc' = "except"
          /\ datadf' = datadf
    /\ UNCHANGED <<world, args, handle, outdir, logs, stderr, split_dict, exported,
                   plots, status>>

\* an export made of the relabelled table with its derived column
ToCsv_after_remap ==
    /\ pc = "to_csv"
    /\ exported' =
          [bound |-> TRUE] @@
          add_log_length([datadf EXCEPT
              !.rows = IF args.split_runs
                       THEN change_identifiers(datadf.rows, split_dict.items)
                       ELSE datadf.rows])
    /\ pc' = IF args.split_runs THEN "change_identifiers" ELSE "make_plots"
    /\ UNCHANGED <<world, args, handle, outdir, logs, stderr, split_dict, datadf,
                   plots, exc, status>>

\* datadf.to_csv("NanoComp-data.tsv.gz", ...)
ToCsv ==
    /\ pc = "to_csv"
    /\ exported' = datadf
    /\ pc' = IF args.split_runs THEN "change_identifiers" ELSE "make_plots"
    /\ UNCHANGED <<world, args, handle, outdir, logs, stderr, split_dict, datadf,
                   plots, exc, status>>

\* change_identifiers(datadf, split_dict)
ChangeIdentifiers ==
    /\ pc = "change_identifiers"
    /\ datadf' = [datadf EXCEPT !.rows = change_identifiers(datadf.rows, split_dict.items)]
    /\ pc' = "make_plots"
    /\ UNCHANGED <<world, args, handle, outdir, logs, stderr, split_dict, exported,
                   plots, exc, status>>

----------------------------------------------------------------------------
(* make_plots *)

violin(a) == a.plot = "violin"

\* df["log length"] = np.log10(df["lengths"])
DeriveLogLength ==
    /\ pc = "make_plots"
    /\ datadf' = [bound |-> TRUE] @@ add_log_length(datadf)
    /\ pc' = "output_barplot"
    /\ UNCHANGED <<world, args, handle, outdir, logs, stderr, split_dict, exported,
                   plots, exc, status>>

\* a call of nanoplotter: the request is made, and the call returns or raises
render(req, next) ==
    /\ plots' = Append(plots, req)
    /\ \/ /\ pc' = next
          /\ exc' = exc
       \/ /\ pc' = "except"
          /\ exc' = "RenderError"
    /\ UNCHANGED <<world, args, handle, outdir, logs, stderr, split_dict, datadf,
                   exported, status>>

OutputBarplot ==
    /\ pc = "output_barplot"
    /\ render([fn |-> "output_barplot", df |-> datadf], "plot_lengths")

PlotLengths ==
    /\ pc = "plot_lengths"
    /\ render([fn |-> "violin_or_box_plot", df |-> datadf, y |-> "lengths",
               violin |-> violin(args)], "plot_log_length")

PlotLogLength ==
    /\ pc = "plot_log_length"
    /\ render([fn |-> "violin_or_box_plot", df |-> datadf, y |-> "log length",
               violin |-> violin(args), log |-> TRUE], "plot_quals")

\* a sequence that ends with the quality plot whatever the source
after_quals_never(a) == "done"

\* if args.bam:
after_quals(a) == IF a.bam > 0 THEN "plot_identity" ELSE "done"

PlotQuals ==
    /\ pc = "plot_quals"
    /\ render([fn |-> "violin_or_box_plot", df |-> datadf, y |-> "quals",
               violin |-> violin(args)], after_quals(args))

PlotIdentity ==
    /\ pc = "plot_identity"
    /\ render([fn |-> "violin_or_box_plot",
               df |-> [bound |-> TRUE] @@ identity_subset(datadf),
               y |-> "percentIdentity", violin |-> violin(args)], "done")

\* logging.info("Succesfully processed all input."), and main() returns
Finish ==
    /\ pc = "done"
    /\ logs' = [logs EXCEPT !.records = Append(@, [level |-> "info", msg |-> "success"])]
    /\ status' = 0
    /\ pc' = "exited"
    /\ UNCHANGED <<world, args, handle, outdir, stderr, split_dict, datadf, exported,
                   plots, exc>>

\* except Exception as e: logging.error(e, exc_info=True); raise
Except ==
    /\ pc = "except"
    /\ logs' = [logs EXCEPT !.records = Append(@, [level |-> "error", msg |-> exc])]
    /\ status' = 1
    /\ pc' = "exited"
    /\ UNCHANGED <<world, args, handle, outdir, stderr, split_dict, datadf, exported,
                   plots, exc>>

Next ==
    \/ GetArgs
    \/ MakeOutputDir
    \/ InitLogs
    \/ ValidateSplitRuns
    \/ GetInput
    \/ ToCsv
    \/ ChangeIdentifiers
    \/ DeriveLogLength
    \/ OutputBarplot
    \/ PlotLengths
    \/ PlotLogLength
    \/ PlotQuals
    \/ PlotIdentity
    \/ Finish
    \/ Except

Spec == Init /\ [][Next]_vars

----------------------------------------------------------------------------
(* Vocabulary of the properties *)

Required == << <<"NAME">>, <<"RUN_ID">> >>

EarlyPcs == {"get_args", "make_output_dir", "init_logs", "validate_split_runs_file"}

\* validate_split_runs_file has been called and has ended
ValidateCalled == args.split_runs /\ outdir /\ pc \notin EarlyPcs

\* the table as nanoget returned it
Ingested == frame_of(source(args), world.reads)

\* change_identifiers has been applied
Remapped ==
    /\ args.split_runs
    /\ datadf.bound
    /\ pc \notin {"to_csv", "change_identifiers"}

NumFiles == args.fastq + args.bam + args.summary

Tag(r) ==
    IF r.fn = "output_barplot" THEN <<"bar", "", FALSE>>
    ELSE <<"distribution", r.y, "log" \in DOMAIN r /\ r.log>>

Tags == [i \in DOMAIN plots |-> Tag(plots[i])]

FixedOrder ==
    << <<"bar", "", FALSE>>,
       <<"distribution", "lengths", FALSE>>,
       <<"distribution", "log length", TRUE>>,
       <<"distribution", "quals", FALSE>> >>

IdentityTag == <<"distribution", "percentIdentity", FALSE>>

----------------------------------------------------------------------------
\* C1: the plot requests are always a prefix of bar, lengths, log length (log
\* flag set), quals and, for bam input only, percentIdentity; a run that
\* completes has issued all of them: 5 for bam, 4 for fastq and summary.
C1_PlotOrder ==
    LET expected == IF args.bam > 0 THEN Append(FixedOrder, IdentityTag) ELSE FixedOrder
    IN  /\ Len(plots) <= Len(expected)
        /\ Tags = SubSeq(expected, 1, Len(plots))
        /\ pc \in {"done", "exited"} /\ exc = "none" /\ stderr = <<>>
              => /\ Tags = expected
                 /\ Len(plots) = IF args.bam > 0 THEN 5 ELSE 4

C1_Witness ==
    /\ status = 0
    /\ args.bam > 0
    /\ Len(plots) = 5
    /\ Tags[5] = IdentityTag

\* C2: after the remap a row whose runIDs is a key of the map has the mapped
\* name as dataset, any other row has the dataset it was ingested with; so the
\* dataset is an original label or a mapping name, and applying the entries in
\* any other order gives the same labels.
C2_Remap ==
    Remapped =>
        LET items == split_dict.items
            before == Ingested.rows
            names == {items[k][2] : k \in DOMAIN items}
            originals == {before[i].dataset : i \in DOMAIN before}
            labels(rows) == [i \in DOMAIN rows |-> rows[i].dataset]
        IN  /\ Len(datadf.rows) = Len(before)
            /\ \A i \in DOMAIN before :
                  /\ datadf.rows[i].runIDs = before[i].runIDs
                  /\ datadf.rows[i].dataset =
                        IF has_key(items, before[i].runIDs)
                        THEN getitem(items, before[i].runIDs)
                        ELSE before[i].dataset
                  /\ datadf.rows[i].dataset \in originals \cup names
            /\ \A p \in Permutations(DOMAIN items) :
                  labels(change_identifiers(before, [k \in DOMAIN items |-> items[p[k]]]))
                      = labels(datadf.rows)

C2_Witness ==
    /\ Remapped
    /\ Len(split_dict.items) >= 2
    /\ \E i \in DOMAIN datadf.rows : datadf.rows[i].dataset # Ingested.rows[i].dataset
    /\ \E i \in DOMAIN datadf.rows : ~has_key(split_dict.items, datadf.rows[i].runIDs)

\* the data lines of the mapping file that carry run id rid
LinesWith(rid) ==
    {i \in 2..Len(world.mapfile) :
        LET f == split(strip(world.mapfile[i])) IN Len(f) >= 2 /\ f[2] = rid}

LastName(rid) ==
    LET last == CHOOSE i \in LinesWith(rid) : \A j \in LinesWith(rid) : j <= i
    IN  split(strip(world.mapfile[last]))[1]

\* C3: a run id on more than one data line of a valid mapping file is mapped
\* to the name of the last of these lines, and after the remap every row with
\* that run id has this name as dataset.
C3_LastWins ==
    split_dict.bound =>
        \A rid \in RunIDs :
            Cardinality(LinesWith(rid)) > 1 =>
                /\ has_key(split_dict.items, rid)
                /\ getitem(split_dict.items, rid) = LastName(rid)
                /\ Remapped =>
                      \A i \in DOMAIN datadf.rows :
                          datadf.rows[i].runIDs = rid
                              => datadf.rows[i].dataset = LastName(rid)

C3_Witness ==
    /\ Remapped
    /\ \E rid \in RunIDs :
          /\ Cardinality(LinesWith(rid)) > 1
          /\ \E i, j \in LinesWith(rid) :
                split(strip(world.mapfile[i]))[1] # split(strip(world.mapfile[j]))[1]
          /\ \E i \in DOMAIN datadf.rows : datadf.rows[i].runIDs = rid


\* C4 as stated: the exported table is the table after the remap and after the
\* derivation: its rows carry the remapped dataset labels and it has the
\* log length column.
C4_ExportAfterRemapAndDerive ==
    exported.bound =>
        /\ "log length" \in exported.columns
        /\ args.split_runs =>
              \A i \in DOMAIN exported.rows :
                  has_key(split_dict.items, exported.rows[i].runIDs)
                      => exported.rows[i].dataset
                            = getitem(split_dict.items, exported.rows[i].runIDs)

\* C4, amended: the exported table is the table as ingested, before the remap
\* and before the derivation: its rows carry the ingested dataset labels and it
\* has no log length column; the export is made before the remap, before the
\* derivation and before the first plot request, and no plot request is made
\* with raw export enabled and the export not yet written.
C4_ExportIsIngestedTable ==
    /\ exported.bound =>
          /\ args.raw
          /\ exported = Ingested
          /\ "log length" \notin exported.columns
    /\ pc = "to_csv" => datadf = Ingested /\ plots = <<>>
    /\ args.raw /\ (plots # <<>> \/ "log length" \in datadf.columns) => exported.bound

C4_Witness ==
    /\ exported.bound
    /\ Remapped
    /\ "log length" \in datadf.columns
    /\ plots # <<>>
    /\ \E i \in DOMAIN datadf.rows : datadf.rows[i].dataset # exported.rows[i].dataset

\* the least value of a non-empty set of integers
Least(S) == CHOOSE x \in S : \A y \in S : x <= y

\* 100 times the 1st percentile of the percentIdentity column of rows (at most
\* 100 of them): the least value and the next value in rank are v1 and v2, and
\* the percentile lies (n-1)/100 of the way from v1 to v2
Threshold100(rows) ==
    LET n == Len(rows)
        v1 == Least({rows[i].percentIdentity : i \in DOMAIN rows})
        at1 == {i \in DOMAIN rows : rows[i].percentIdentity = v1}
        rest == {rows[i].percentIdentity : i \in DOMAIN rows \ {Least(at1)}}
        v2 == IF rest = {} THEN v1 ELSE Least(rest)
    IN  (101 - n) * v1 + (n - 1) * v2

\* C5: the table of the identity request holds exactly the rows of the full
\* table whose percentIdentity is strictly above the 1st percentile of the
\* column over the full table.
C5_IdentitySubset ==
    Len(plots) = 5 =>
        /\ plots[5].y = "percentIdentity"
        /\ plots[5].df.columns = datadf.columns
        /\ plots[5].df.rows =
              SelectSeq(datadf.rows,
                        LAMBDA r : 100 * r.percentIdentity > Threshold100(datadf.rows))

C5_Witness ==
    /\ Len(plots) = 5
    /\ plots[5].df.rows # <<>>
    /\ Len(plots[5].df.rows) < Len(datadf.rows)

\* the outcome of a format error: the message was printed, the process has
\* exited with status 1, and there is no map, no table, no export and no plot
FormatFailure ==
    /\ pc = "exited"
    /\ status = 1
    /\ stderr \in {<<HeaderError>>, <<FormatError>>}
    /\ ~split_dict.bound
    /\ ~datadf.bound
    /\ ~exported.bound
    /\ plots = <<>>

\* C6 as stated: a first line that, split on tab, is not ["NAME","RUN_ID"]
\* whatever the case (or no first line at all) makes the run fail with a format
\* error, with no row in the map, before ingestion and before any plot request.
C6_BadHeaderFails ==
    LET f == world.mapfile
    IN  ValidateCalled /\ (f = <<>> \/ split(upper(f[1])) # Required) => FormatFailure

\* C6, amended: the same of a first line that, stripped of its leading and
\* trailing whitespace and then split on tab, is not ["NAME","RUN_ID"].
C6_BadStrippedHeaderFails ==
    LET f == world.mapfile
    IN  ValidateCalled /\ (f = <<>> \/ split(upper(strip(f[1]))) # Required)
            => FormatFailure

C6_Witness ==
    /\ ValidateCalled
    /\ Len(world.mapfile) >= 2
    /\ split(upper(strip(world.mapfile[1]))) = <<<<"ID">>, <<"NAME">>>>
    /\ Len(split(world.mapfile[2])) >= 2
    /\ FormatFailure

\* C7 as stated: with a valid header, a later non-empty line with fewer than 2
\* tab-separated fields makes validate_split_runs_file fail with a format
\* error and return no map, before ingestion and before any plot request.
C7_ShortRowFails ==
    LET f == world.mapfile
    IN  /\ ValidateCalled
        /\ f # <<>>
        /\ split(upper(strip(f[1]))) = Required
        /\ \E i \in 2..Len(f) : f[i] # <<>> /\ Len(split(f[i])) < 2
        => FormatFailure /\ stderr = <<FormatError>>

\* C7, amended: the same of a later line that is non-empty once stripped of
\* its leading and trailing whitespace.
C7_ShortStrippedRowFails ==
    LET f == world.mapfile
    IN  /\ ValidateCalled
        /\ f # <<>>
        /\ split(upper(strip(f[1]))) = Required
        /\ \E i \in 2..Len(f) : strip(f[i]) # <<>> /\ Len(split(f[i])) < 2
        => FormatFailure /\ stderr = <<FormatError>>

C7_Witness ==
    LET f == world.mapfile
    IN  /\ ValidateCalled
        /\ Len(f) = 3
        /\ split(upper(strip(f[1]))) = Required
        /\ Len(split(strip(f[2]))) >= 2
        /\ strip(f[3]) # <<>> /\ Len(split(f[3])) < 2
        /\ FormatFailure

\* names were supplied and their count is not the number of files
CountsDiffer == args.names > 0 /\ args.names # NumFiles

\* the outcome of a configuration error, the mapping file apart
ConfigFailure ==
    /\ pc = "exited"
    /\ status = 1
    /\ stderr = <<NamesError>>
    /\ ~outdir
    /\ ~logs.ready
    /\ ~datadf.bound
    /\ ~exported.bound
    /\ plots = <<>>

\* C8 as stated: a name count that differs from the file count makes the run
\* fail with a configuration error before any I/O: no file has been opened (not
\* the mapping file either), no output directory created, nothing ingested,
\* plotted or exported; equal counts raise no configuration error.
C8_NoIOBeforeConfigError ==
    pc # "get_args" =>
        /\ CountsDiffer => ConfigFailure /\ ~handle.open
        /\ ~CountsDiffer => NamesError \notin {stderr[i] : i \in DOMAIN stderr}

\* C8, amended: the same, except that the mapping file, when one is given, has
\* been opened by the parsing of the arguments, and nothing has been read from
\* it.
C8_ConfigErrorBeforeOutput ==
    pc # "get_args" =>
        /\ CountsDiffer =>
              /\ ConfigFailure
              /\ handle.open = args.split_runs
              /\ handle.open => handle.unread = world.mapfile
        /\ ~CountsDiffer => NamesError \notin {stderr[i] : i \in DOMAIN stderr}

C8_Witness ==
    /\ CountsDiffer
    /\ ConfigFailure
    /\ handle.open
    /\ handle.unread # <<>>

\* C9: an error of any kind is logged before the process terminates, and the
\* process then terminates with a non-zero status.
C9_ErrorsLoggedThenNonZero ==
    pc = "exited" /\ (stderr # <<>> \/ exc # "none") =>
        /\ status # 0
        /\ \E i \in DOMAIN logs.records : logs.records[i].level = "error"

\* C10: the handle of the mapping file is released once parsing has finished
\* and when the process terminates, whatever the outcome.
C10_HandleReleased ==
    args.split_runs /\ (pc = "exited" \/ ValidateCalled) => ~handle.open

====
